---- MODULE Spec2Model ----
(***************************************************************************)
(* Markov chain text generator (src/Markov.cpp, final revision, lines      *)
(* 667-1043): Parser, Word, MarkovChain, Corpus.                           *)
(*                                                                         *)
(* A character is its byte value; a std::string is a sequence of           *)
(* characters; a std::stringstream is the sequence of its unread           *)
(* characters.                                                             *)
(***************************************************************************)
EXTENDS Integers, Sequences, FiniteSets, TLC

\* ------------------------------------------------------------------ bounds
MaxLen == 3          \* longest enumerated buffer of the first build
MaxRebuildLen == 1   \* longest enumerated buffer of a later build
MaxBuilds == 2       \* builds per Corpus object
MaxRun == 4          \* recorded tokens of one generation run (saturating)
MaxDist == 2         \* distances to stop_string told apart by the fairness

\* --------------------------------------------------------------- constants
STOP_CHAR == 10      \* '\n'
SPACE == 32          \* ' '

Letters == {120, 121}                    \* 'x', 'y'
Alphabet == Letters \cup {SPACE, STOP_CHAR}

\* std::string(1, STOP_CHAR)
stop_string == <<STOP_CHAR>>

\* "x y\nz y\n", "solo", "a\n\n\nb", "x y x\n"
CorpusXYZ == <<120, 32, 121, 10, 122, 32, 121, 10>>
CorpusSolo == <<115, 111, 108, 111>>
CorpusBlankLines == <<97, 10, 10, 10, 98>>
CorpusCycle == <<120, 32, 121, 32, 120, 10>>
Examples == {CorpusXYZ, CorpusSolo, CorpusBlankLines, CorpusCycle}

\* A later build draws from one letter only
RebuildAlphabet == {120, SPACE, STOP_CHAR}

SeqsUpTo(A, n) == UNION {[1..k -> A] : k \in 0..n}
Buffers == SeqsUpTo(Alphabet, MaxLen) \cup Examples
RebuildBuffers == SeqsUpTo(RebuildAlphabet, MaxRebuildLen)

\* ------------------------------------------------------------------ Parser
\* The stream with its leading run of character c read off
\* (while (!done() && stream.peek() == c) stream.get();)
RECURSIVE SkipRun(_, _)
SkipRun(s, c) ==
    IF s /= <<>> /\ Head(s) = c THEN SkipRun(Tail(s), c) ELSE s

\* Number of characters the word loop of Parser::next eats: up to the first
\* space, stop character or end of input.
RECURSIVE WordLen(_)
WordLen(s) ==
    IF s = <<>> \/ Head(s) = SPACE \/ Head(s) = STOP_CHAR
    THEN 0
    ELSE 1 + WordLen(Tail(s))

\* Parser::done
ParserDone(s) == Len(s) = 0

\* Parser::next with only one stop character of a run consumed
ParserNextOneStop(s) ==
    LET s1 == SkipRun(s, SPACE) IN
    IF ~ParserDone(s1) /\ Head(s1) = STOP_CHAR
    THEN [tok |-> stop_string, rest |-> Tail(s1)]
    ELSE LET n == WordLen(s1) IN
         [tok |-> SubSeq(s1, 1, n), rest |-> SubSeq(s1, n + 1, Len(s1))]

\* Parser::next without the loop that skips preceding spaces: a space
\* ends the word at once and stays on the stream
ParserNextNoSkip(s) ==
    IF ~ParserDone(s) /\ Head(s) = STOP_CHAR
    THEN [tok |-> stop_string, rest |-> SkipRun(s, STOP_CHAR)]
    ELSE LET n == WordLen(s) IN
         [tok |-> SubSeq(s, 1, n), rest |-> SubSeq(s, n + 1, Len(s))]

\* Parser::next: the returned string and the stream it leaves
ParserNext(s) ==
    LET s1 == SkipRun(s, SPACE) IN
    IF ~ParserDone(s1) /\ Head(s1) = STOP_CHAR
    THEN [tok |-> stop_string, rest |-> SkipRun(s1, STOP_CHAR)]
    ELSE LET n == WordLen(s1) IN
         [tok |-> SubSeq(s1, 1, n), rest |-> SubSeq(s1, n + 1, Len(s1))]

\* -------------------------------------------------------------------- Word
\* operator< of std::string (the iteration order of std::map)
RECURSIVE StrLess(_, _)
StrLess(a, b) ==
    IF b = <<>> THEN FALSE
    ELSE IF a = <<>> THEN TRUE
    ELSE IF Head(a) /= Head(b) THEN Head(a) < Head(b)
    ELSE StrLess(Tail(a), Tail(b))

\* The keys of a std::map in iteration order
RECURSIVE SortedKeys(_)
SortedKeys(S) ==
    IF S = {} THEN <<>>
    ELSE LET m == CHOOSE x \in S : \A y \in S \ {x} : StrLess(x, y)
         IN <<m>> \o SortedKeys(S \ {m})

\* Word::Word(std::string): no transitions, default discrete_distribution,
\* empty lookup table.  A probability is kept as numerator and denominator.
NewWord(w) ==
    [word_string |-> w,
     transitions |-> << >>,
     num_transitions |-> 0,
     delta |-> << >>,
     delta_lookup |-> << >>]

\* Word::update_transition
update_transition(word, next) ==
    LET t == word.transitions
        t0 == IF next \in DOMAIN t THEN t ELSE t @@ (next :> 0)
    IN [word EXCEPT !.transitions = [t0 EXCEPT ![next] = @ + 1],
                    !.num_transitions = @ + 1]

\* Word::cache
cache(word) ==
    LET keys == SortedKeys(DOMAIN word.transitions) IN
    [word EXCEPT
       !.delta_lookup = keys,
       !.delta = [i \in 1..Len(keys) |->
                    [num |-> word.transitions[keys[i]],
                     den |-> word.num_transitions]]]

\* The indices std::discrete_distribution can produce (1-based here): every
\* index of positive weight; with no weights it is the one-outcome
\* distribution.
DeltaDraws(delta) ==
    IF Len(delta) = 0
    THEN {1}
    ELSE {i \in 1..Len(delta) : delta[i].num > 0}

\* ------------------------------------------------------------- MarkovChain
\* MarkovChain::MarkovChain(): generator(NULL), dictionary(NULL), and an
\* empty current_word.  `bound' stands for the two pointers being set.
DefaultChain == [bound |-> FALSE, current_word |-> << >>]

\* MarkovChain::MarkovChain(gen, dict)
BoundChain == [bound |-> TRUE, current_word |-> << >>]

\* MarkovChain::done that takes an unset cursor for the stop string too
ChainDoneValueUnset(c) == c.current_word \in {<< >>, stop_string}

\* MarkovChain::done
ChainDoneValue(c) == c.current_word = stop_string

\* The key MarkovChain::next takes without the substitution for an unset
\* cursor
NextKeyRaw(c) == c.current_word

\* The key MarkovChain::next looks up
NextKey(c) ==
    IF c.current_word = << >> THEN stop_string ELSE c.current_word

\* ------------------------------------------------------------------ Corpus
VARIABLES
    pc,           \* "idle", "building" (inside Corpus::build), or the ways
                  \* the process ended: "exited" (exit(1)), "undefined"
    not_built,    \* Corpus::not_built
    dictionary,   \* Corpus::dictionary: key -> Word
    stream,       \* unread characters of the stream build is reading
    curr,         \* local curr of Corpus::build
    chain,        \* the caller's MarkovChain object
    outcome,      \* how the last call of build(), chain(), done() or next()
                  \* ended
    built,        \* history: the buffers handed to build, in order
    emitted,      \* history: what p.next() returned in the current build
    run           \* history: tokens generated since the cursor was at start
                  \* (or since the last build began)

vars == <<pc, not_built, dictionary, stream, curr, chain, outcome, built,
          emitted, run>>

NoOutcome == [op |-> "none", kind |-> "none", value |-> << >>]

\* Corpus::num_words
num_words(dict) == Cardinality(DOMAIN dict)

\* Corpus::add_pair without creating the Word for a new key first
add_pair_blind(dict, c, n) ==
    IF c \in DOMAIN dict
    THEN [dict EXCEPT ![c] = update_transition(@, n)]
    ELSE dict

\* Corpus::add_pair
add_pair(dict, c, n) ==
    LET d0 == IF c \notin DOMAIN dict THEN dict @@ (c :> NewWord(c)) ELSE dict
    IN [d0 EXCEPT ![c] = update_transition(@, n)]

\* One iteration of the while loop of Corpus::build, without curr = next
LoopBodyStaleCurr(s, c, dict) ==
    LET r == ParserNext(s)
        next == IF ParserDone(r.rest) THEN stop_string ELSE r.tok
    IN [raw |-> r.tok, stream |-> r.rest, curr |-> c,
        dictionary |-> add_pair(dict, c, next)]

\* One iteration of the while loop of Corpus::build, without the test that
\* the parser ran out of characters
LoopBodyNoStop(s, c, dict) ==
    LET r == ParserNext(s) IN
    [raw |-> r.tok, stream |-> r.rest, curr |-> r.tok,
     dictionary |-> add_pair(dict, c, r.tok)]

\* One iteration of the while loop of Corpus::build
LoopBody(s, c, dict) ==
    LET r == ParserNext(s)
        next == IF ParserDone(r.rest) THEN stop_string ELSE r.tok
    IN [raw |-> r.tok, stream |-> r.rest, curr |-> next,
        dictionary |-> add_pair(dict, c, next)]

\* The for loop of Corpus::build: cache() on every Word of the dictionary
CacheAll(dict) == [k \in DOMAIN dict |-> cache(dict[k])]

\* The whole of Corpus::build(stream) as a function of the stream and the
\* dictionary it starts from
RECURSIVE BuildLoop(_, _, _)
BuildLoop(s, c, dict) ==
    IF ParserDone(s)
    THEN CacheAll(dict)
    ELSE LET b == LoopBody(s, c, dict)
         IN BuildLoop(b.stream, b.curr, b.dictionary)

Init ==
    /\ pc = "idle"
    /\ not_built = TRUE
    /\ dictionary = << >>
    /\ stream = << >>
    /\ curr = << >>
    /\ chain = DefaultChain
    /\ outcome = NoOutcome
    /\ built = << >>
    /\ emitted = << >>
    /\ run = << >>

\* Corpus::build, entry: Parser p(stream); curr = stop_string
BuildBegin ==
    /\ pc = "idle"
    /\ Len(built) < MaxBuilds
    /\ \E buf \in (IF built = << >> THEN Buffers ELSE RebuildBuffers) :
          /\ stream' = buf
          /\ built' = Append(built, buf)
    /\ curr' = stop_string
    /\ emitted' = << >>
    /\ run' = << >>
    /\ pc' = "building"
    /\ UNCHANGED <<not_built, dictionary, chain, outcome>>

\* Corpus::build, one turn of while (!p.done())
BuildIter ==
    /\ pc = "building"
    /\ ~ParserDone(stream)
    /\ LET b == LoopBody(stream, curr, dictionary) IN
          /\ stream' = b.stream
          /\ curr' = b.curr
          /\ dictionary' = b.dictionary
          /\ emitted' = Append(emitted, b.raw)
    /\ UNCHANGED <<pc, not_built, chain, outcome, built, run>>

\* Corpus::build, after the loop: cache every Word, not_built = false
BuildEnd ==
    /\ pc = "building"
    /\ ParserDone(stream)
    /\ dictionary' = CacheAll(dictionary)
    /\ not_built' = FALSE
    /\ pc' = "idle"
    /\ outcome' = [op |-> "build", kind |-> "value", value |-> << >>]
    /\ UNCHANGED <<stream, curr, chain, built, emitted, run>>

\* chain = corpus.chain()
CorpusChain ==
    /\ pc = "idle"
    /\ IF not_built
       THEN /\ pc' = "exited"
            /\ outcome' = [op |-> "chain", kind |-> "usage_error",
                           value |-> << >>]
            /\ UNCHANGED <<chain, run>>
       ELSE /\ chain' = BoundChain
            /\ run' = << >>
            /\ outcome' = [op |-> "chain", kind |-> "value", value |-> << >>]
            /\ pc' = pc
    /\ UNCHANGED <<not_built, dictionary, stream, curr, built, emitted>>

\* chain.done(); the returned bool is recorded as TRUE / FALSE
ChainDone ==
    /\ pc = "idle"
    /\ outcome' = [op |-> "done", kind |-> "value",
                   value |-> ChainDoneValue(chain)]
    /\ UNCHANGED <<pc, not_built, dictionary, stream, curr, chain, built,
                   emitted, run>>

\* What a read of delta_lookup[i] past the end of the vector can give: a
\* crash, or some string
Garbage == {<< >>, stop_string, <<120>>}

\* Word::next on a Word taken by itself: the ways the call can end.  The
\* code has no test of the state of the Word; a drawn index inside
\* delta_lookup gives that string, one past its end is an undefined read.
WordNext(word) ==
    {[kind |-> "value", value |-> word.delta_lookup[i]] :
        i \in {j \in DeltaDraws(word.delta) : j <= Len(word.delta_lookup)}}
    \cup
    {[kind |-> "undefined_" \o k, value |-> g] :
        <<k, g>> \in
           IF \E j \in DeltaDraws(word.delta) : j > Len(word.delta_lookup)
           THEN {"crash", "value"} \X Garbage
           ELSE {}}

\* chain.next()
ChainNext ==
    /\ pc = "idle"
    /\ IF ~chain.bound
       THEN /\ pc' = "exited"
            /\ outcome' = [op |-> "next", kind |-> "usage_error",
                           value |-> << >>]
            /\ UNCHANGED <<dictionary, chain, run>>
       ELSE LET key == NextKey(chain)
                \* (*dictionary)[key] default-constructs a missing Word
                dict == IF key \in DOMAIN dictionary
                        THEN dictionary
                        ELSE dictionary @@ (key :> NewWord(<< >>))
                word == dict[key]
            IN /\ dictionary' = dict
               /\ \E i \in DeltaDraws(word.delta) :
                    IF i <= Len(word.delta_lookup)
                    THEN /\ chain' = [chain EXCEPT
                                        !.current_word = word.delta_lookup[i]]
                         /\ outcome' = [op |-> "next", kind |-> "value",
                                        value |-> word.delta_lookup[i]]
                         /\ run' = IF key = stop_string
                                   THEN <<word.delta_lookup[i]>>
                                   ELSE IF Len(run) < MaxRun
                                   THEN Append(run, word.delta_lookup[i])
                                   ELSE run
                         /\ pc' = pc
                    ELSE /\ pc' = "undefined"
                         /\ \E g \in Garbage, k \in {"crash", "value"} :
                              /\ outcome' = [op |-> "next",
                                             kind |-> "undefined_" \o k,
                                             value |-> g]
                              /\ chain' = [chain EXCEPT !.current_word = g]
                         /\ UNCHANGED run
    /\ UNCHANGED <<not_built, stream, curr, built, emitted>>

Next ==
    \/ BuildBegin
    \/ BuildIter
    \/ BuildEnd
    \/ CorpusChain
    \/ ChainDone
    \/ ChainNext

Spec == Init /\ [][Next]_vars

TypeOK ==
    /\ pc \in {"idle", "building", "exited", "undefined"}
    /\ not_built \in BOOLEAN
    /\ chain.bound \in BOOLEAN
    /\ Len(built) <= MaxBuilds
    /\ Len(run) <= MaxRun

\* ------------------------------------------------------------------ main()
\* main: MarkovChain chain; Corpus corpus; corpus.build(...);
\* chain = corpus.chain(); while (!chain.done()) chain.next();
MainBuild == built = << >> /\ BuildBegin

MainChain == ~not_built /\ ~chain.bound /\ CorpusChain

MainLoop == chain.bound /\ ~ChainDoneValue(chain) /\ ChainNext

MainNext ==
    \/ MainBuild
    \/ BuildIter
    \/ BuildEnd
    \/ MainChain
    \/ MainLoop

\* The tokens from which stop_string is reached in at most n transitions of
\* the tables (the token itself for n = 0)
RECURSIVE Within(_, _)
Within(dict, n) ==
    IF n = 0 THEN {stop_string}
    ELSE LET S == Within(dict, n - 1)
         IN S \cup {k \in DOMAIN dict :
                      \E t \in DOMAIN dict[k].transitions :
                         dict[k].transitions[t] > 0 /\ t \in S}

\* Transitions to go from token t to stop_string; MaxDist + 1 when more
StopDist(dict, t) ==
    IF \E n \in 0..MaxDist : t \in Within(dict, n)
    THEN CHOOSE n \in 0..MaxDist :
            /\ t \in Within(dict, n)
            /\ \A m \in 0..(n - 1) : t \notin Within(dict, m)
    ELSE MaxDist + 1

\* The generator is fair: a successor that can be drawn again and again is
\* drawn at some point.  It is assumed here only of the successors taken
\* together by their distance to stop_string, which is less than assuming
\* it of every successor of every token.
MainSpec ==
    /\ Init
    /\ [][MainNext]_vars
    /\ WF_vars(BuildIter \/ BuildEnd \/ MainChain)
    /\ \A d \in 0..(MaxDist + 1) :
          SF_vars(MainLoop /\ StopDist(dictionary, chain'.current_word) = d)

\* ----------------------------------------------------- notions of the claims
Last(s) == s[Len(s)]

\* key -> (successor -> count)
Tables(dict) == [k \in DOMAIN dict |-> dict[k].transitions]

\* The adjacent-pair counts of a sequence of tokens
PairTables(seq) ==
    LET Pos == 1..(Len(seq) - 1)
        preds == {seq[i] : i \in Pos}
    IN [p \in preds |->
          LET at == {i \in Pos : seq[i] = p}
          IN [t \in {seq[i + 1] : i \in at} |->
                Cardinality({i \in at : seq[i + 1] = t})]]

HasTransition(dict, p, t) ==
    /\ p \in DOMAIN dict
    /\ t \in DOMAIN dict[p].transitions
    /\ dict[p].transitions[t] > 0

\* The keys from which stop_string is reached in one or more transitions of
\* positive count (S is grown n times).
RECURSIVE ReachStop(_, _, _)
ReachStop(dict, S, n) ==
    IF n = 0 THEN S
    ELSE ReachStop(dict,
                   S \cup {k \in DOMAIN dict :
                             \E t \in S : HasTransition(dict, k, t)},
                   n - 1)

CanReachStop(dict) ==
    ReachStop(dict,
              {k \in DOMAIN dict : HasTransition(dict, k, stop_string)},
              Cardinality(DOMAIN dict))

IsDelim(c) == c = SPACE \/ c = STOP_CHAR

\* The words of a buffer: its maximal pieces without space or line break
WordsOf(buf) ==
    {SubSeq(buf, i, j) : <<i, j>> \in
        {ij \in (1..Len(buf)) \X (1..Len(buf)) :
            /\ ij[1] <= ij[2]
            /\ \A k \in ij[1]..ij[2] : ~IsDelim(buf[k])
            /\ ij[1] = 1 \/ IsDelim(buf[ij[1] - 1])
            /\ ij[2] = Len(buf) \/ IsDelim(buf[ij[2] + 1])}}

\* The number of maximal runs of line breaks of a buffer
StopRuns(buf) ==
    Cardinality({i \in 1..Len(buf) :
                   /\ buf[i] = STOP_CHAR
                   /\ i = 1 \/ buf[i - 1] /= STOP_CHAR})

StopCount(toks) == Cardinality({i \in 1..Len(toks) : toks[i] = stop_string})

\* A build has returned and the process is running
Ready == pc = "idle" /\ ~not_built

\* The one build of a new Corpus has returned
FirstBuilt == Ready /\ Len(built) = 1

IsPrefix(a, b) == Len(a) <= Len(b) /\ a = SubSeq(b, 1, Len(a))

\* ------------------------------------------------------------------ claims
TokX == <<120>>
TokY == <<121>>
TokZ == <<122>>

\* C1: after build of a new Corpus on a buffer whose last character is a
\* line break, the tables are exactly the adjacent-pair counts of
\* BOUNDARY, t1, ..., tn, with t1..tn the strings the parser returned, and
\* no other table or entry exists; "x y\nz y\n" gives start->{x:1, z:1},
\* x->{y:1}, y->{BOUNDARY:2}, z->{y:1}.
C1_PairCounts ==
    (FirstBuilt /\ built[1] /= << >> /\ Last(built[1]) = STOP_CHAR) =>
        /\ Tables(dictionary) = PairTables(<<stop_string>> \o emitted)
        /\ built[1] = CorpusXYZ =>
              Tables(dictionary) =
                  (stop_string :> (TokX :> 1 @@ TokZ :> 1))
                  @@ (TokX :> (TokY :> 1))
                  @@ (TokY :> (stop_string :> 2))
                  @@ (TokZ :> (TokY :> 1))

C1_Witness ==
    /\ FirstBuilt
    /\ built[1] = CorpusXYZ
    /\ HasTransition(dictionary, TokY, stop_string)
    /\ dictionary[TokY].transitions[stop_string] = 2

\* C2: after build of a new Corpus on a buffer whose last character is
\* neither a space nor a line break, the final word w is a successor of its
\* predecessor and w -> BOUNDARY is recorded; "solo" gives exactly
\* start->{solo:1}, solo->{BOUNDARY:1}.
C2_TrailingBoundary ==
    (FirstBuilt /\ built[1] /= << >> /\ ~IsDelim(Last(built[1]))) =>
        LET n == Len(emitted)
            w == emitted[n]
            p == IF n = 1 THEN stop_string ELSE emitted[n - 1]
        IN /\ HasTransition(dictionary, p, w)
           /\ HasTransition(dictionary, w, stop_string)
           /\ built[1] = CorpusSolo =>
                 Tables(dictionary) =
                     (stop_string :> (CorpusSolo :> 1))
                     @@ (CorpusSolo :> (stop_string :> 1))

\* C3 (tables): once main's build of a buffer that is not empty has
\* returned, BOUNDARY is reached from every key of the dictionary along
\* transitions of positive count.
StopReachable ==
    (Ready /\ \E i \in 1..Len(built) : built[i] /= << >>) =>
        DOMAIN dictionary \subseteq CanReachStop(dictionary)

\* C3: BOUNDARY stays reachable from every key, and main's loop
\* while (!chain.done()) chain.next(), run on a chain of a corpus that is
\* not empty, reaches done() when the generator is fair.
C3_Terminates ==
    /\ []StopReachable
    /\ [](chain.bound /\ built /= << >> /\ built[1] /= << >>
            => <>ChainDoneValue(chain))

C3_Witness ==
    /\ built = <<CorpusCycle>>
    /\ chain.bound
    /\ ChainDoneValue(chain)
    /\ run = <<TokX, TokY, TokX, stop_string>>

\* C4: after build of an empty buffer, step() on a chain of that Corpus
\* ends in a usage error.
C4_EmptyStepUsageError ==
    (/\ built /= << >>
     /\ \A i \in 1..Len(built) : built[i] = << >>
     /\ chain.bound
     /\ outcome.op = "next") => outcome.kind = "usage_error"

\* C5: next() and done() called on a default-constructed MarkovChain, and
\* chain() called on a Corpus that was never built, end in a usage error.
C5_UnbuiltUsageError ==
    (~chain.bound /\ outcome.op \in {"chain", "next", "done"}) =>
        outcome.kind = "usage_error"

\* C6: after a second build, the tables are those a new Corpus gets from
\* the second buffer alone.
C6_RebuildDiscards ==
    (Ready /\ Len(built) = 2) =>
        Tables(dictionary) =
            Tables(BuildLoop(built[2], stop_string, << >>))

\* C7: after build, every word of the buffer has a table with at least one
\* transition.
C7_EveryWordHasSuccessor ==
    (Ready /\ built /= << >>) =>
        \A i \in 1..Len(built) : \A w \in WordsOf(built[i]) :
            /\ w \in DOMAIN dictionary
            /\ dictionary[w].num_transitions > 0
            /\ DOMAIN dictionary[w].transitions /= {}

\* C8: over a whole buffer the parser returns as many BOUNDARY tokens as
\* the buffer has maximal runs of line breaks; "a\n\n\nb" gives
\* a, BOUNDARY, b.
C8_OneBoundaryPerRun ==
    (pc = "idle" /\ built /= << >>) =>
        /\ StopCount(emitted) = StopRuns(Last(built))
        /\ Last(built) = CorpusBlankLines =>
              emitted = <<<<97>>, stop_string, <<98>>>>

C8_Witness ==
    /\ pc = "idle"
    /\ built = <<CorpusBlankLines>>
    /\ Len(emitted) = 3
    /\ emitted[2] = stop_string

\* C9: every string Parser::next returns while done() is false is BOUNDARY
\* or a word that is not empty and holds no space and no line break.
C9_NoEmptyToken ==
    \A i \in 1..Len(emitted) :
        \/ emitted[i] = stop_string
        \/ /\ emitted[i] /= << >>
           /\ \A k \in 1..Len(emitted[i]) : ~IsDelim(emitted[i][k])

\* C10 (step): in a ready model of a corpus that is not empty, next() on a
\* bound chain looks up the table of the cursor, the table of BOUNDARY for
\* an unset cursor, returns a successor of positive count in that table
\* and makes it the cursor.
StepFollowsTable ==
    (ChainNext /\ chain.bound /\ dictionary /= << >>) =>
        LET key == IF chain.current_word \in {<< >>, stop_string}
                   THEN stop_string
                   ELSE chain.current_word
            v == chain'.current_word
        IN /\ pc' = "idle"
           /\ outcome' = [op |-> "next", kind |-> "value", value |-> v]
           /\ HasTransition(dictionary, key, v)

\* C10 (runs): on the corpus "x y\nz y\n" a run from start is a prefix of
\* x, y, BOUNDARY or of z, y, BOUNDARY.
RunsOfXYZ ==
    (built = <<CorpusXYZ>> /\ chain.bound) =>
        \/ IsPrefix(run, <<TokX, TokY, stop_string>>)
        \/ IsPrefix(run, <<TokZ, TokY, stop_string>>)

\* C10: every step follows the table of the cursor, and the runs of
\* "x y\nz y\n" are x, y, BOUNDARY and z, y, BOUNDARY.
C10_StepSamplesCursorTable == [][StepFollowsTable]_vars /\ []RunsOfXYZ

C10_Witness ==
    /\ built = <<CorpusXYZ>>
    /\ chain.bound
    /\ run = <<TokZ, TokY, stop_string>>
    /\ outcome = [op |-> "next", kind |-> "value", value |-> stop_string]

\* C11 (value): done() returns true iff the cursor of the chain is the
\* BOUNDARY string; for an unset cursor or a word it returns false.
DoneIsCursorAtStop ==
    outcome.op = "done" =>
        /\ outcome.kind = "value"
        /\ outcome.value = (chain.current_word = stop_string)

\* C11 (change): the cursor comes to be BOUNDARY only by a next() that
\* returns BOUNDARY, and a next() that returns BOUNDARY leaves the cursor
\* there.
DoneOnlyByStep ==
    pc' = "idle" =>
        /\ (chain'.current_word = stop_string
              /\ chain.current_word /= stop_string) =>
                 /\ ChainNext
                 /\ outcome' = [op |-> "next", kind |-> "value",
                                value |-> stop_string]
        /\ (ChainNext /\ chain.bound) =>
              (outcome'.value = stop_string
                 <=> chain'.current_word = stop_string)

\* C11: done() is true iff the cursor equals BOUNDARY, false for a word
\* cursor, and turns true exactly when next() has just returned BOUNDARY.
C11_DoneIffCursorAtStop == []DoneIsCursorAtStop /\ [][DoneOnlyByStep]_vars

C11_Witness ==
    /\ chain.bound
    /\ chain.current_word = stop_string
    /\ outcome = [op |-> "done", kind |-> "value", value |-> TRUE]

\* A Word whose lookup table and distribution are not those cache() makes
\* of its transitions: never cached since its first update_transition, or
\* updated since its last cache().
Stale(word) == cache(word) /= word

\* C12: Word::next on a Word that was never cached or was updated since
\* its last cache() ends in an error and returns no successor.
C12_StaleSampleIsError ==
    \A k \in DOMAIN dictionary :
        Stale(dictionary[k]) =>
            \A r \in WordNext(dictionary[k]) : r.kind = "error"

\* The sum of the counts of a transitions map
RECURSIVE SumCounts(_)
SumCounts(t) ==
    IF DOMAIN t = {} THEN 0
    ELSE LET k == CHOOSE x \in DOMAIN t : TRUE
         IN t[k] + SumCounts([y \in DOMAIN t \ {k} |-> t[y]])

\* total == sum of the counts, every count positive, total > 0
TableSound(word) ==
    /\ word.num_transitions = SumCounts(word.transitions)
    /\ \A t \in DOMAIN word.transitions : word.transitions[t] > 0
    /\ word.num_transitions > 0

\* C13 (tables): once a build has returned, every Word of the dictionary
\* has total == sum of its counts, positive counts and total > 0.
TablesSound ==
    (~not_built /\ pc \in {"idle", "building"}) =>
        \A k \in DOMAIN dictionary : TableSound(dictionary[k])

\* C13 (sampling): the Word a next() samples is a Word of the dictionary
\* with total > 0.
SampledTableSound ==
    (ChainNext /\ chain.bound) =>
        LET key == IF chain.current_word = << >>
                   THEN stop_string
                   ELSE chain.current_word
        IN /\ key \in DOMAIN dictionary
           /\ TableSound(dictionary[key])

\* C13: in a built model, after any builds and steps, every table has
\* total == sum of counts, positive counts and total > 0, and no table
\* without observations is sampled.
C13_TablesSound == []TablesSound /\ [][SampledTableSound]_vars

\* C14: once a build has returned, a next() on a chain leaves the
\* dictionary as it was: the same keys (num_words), counts, totals and
\* lookup tables; it changes only the cursor of the chain.
StepLeavesTables ==
    (ChainNext /\ ~not_built) =>
        /\ num_words(dictionary') = num_words(dictionary)
        /\ DOMAIN dictionary' = DOMAIN dictionary
        /\ dictionary' = dictionary
        /\ not_built' = not_built

C14_StepLeavesTables == [][StepLeavesTables]_vars

\* C15 (step): a turn of the build loop, which calls Parser::next with
\* characters left, leaves fewer characters on the stream.
IterConsumes == BuildIter => Len(stream') < Len(stream)

\* C15 (count): the turns made so far and the characters left are together
\* no more than the characters of the buffer.
IterBound ==
    (pc = "building" \/ Ready) /\ built /= << >> =>
        Len(emitted) + Len(stream) <= Len(Last(built))

\* C15 (end): build has returned with every Word cached and the model
\* ready.
BuiltAndCached ==
    /\ Ready
    /\ ParserDone(stream)
    /\ \A k \in DOMAIN dictionary : ~Stale(dictionary[k])

\* C15: build terminates on every buffer: each Parser::next call made with
\* input left consumes at least one character, the loop makes at most as
\* many turns as the buffer has characters, and build then caches every
\* Word and sets the model ready.
C15_BuildTerminates ==
    /\ [][IterConsumes]_vars
    /\ []IterBound
    /\ (pc = "building" ~> BuiltAndCached)

C15_Witness ==
    /\ BuiltAndCached
    /\ built = <<CorpusXYZ>>
    /\ Len(emitted) = 6
    /\ num_words(dictionary) = 4

====
